---- MODULE Spec2Model ----
(***************************************************************************)
(* Model of the simulation core of src/game.js (class Game): the fixed     *)
(* timestep frame loop, the self-rescheduling spawn timer, the blade       *)
(* trail, the collision / slice engine, body expiry and game over.         *)
(*                                                                         *)
(* Number representation.  The program computes in IEEE doubles; the model *)
(* uses integers in fixed point:                                           *)
(*   - lengths and speeds (x, y, speedX, speedY, offsets) in 1/Scale px,   *)
(*   - requestAnimationFrame time in 1/TimeScale ms, so that the fixed     *)
(*     step 1000/60 ms is the integer fixedTimeStep,                       *)
(*   - Date.now() in ms,                                                   *)
(*   - difficulty in 1/DiffScale,                                          *)
(*   - rotation and rotationSpeed in 1/100 rad,                            *)
(*   - sliceAngle in eighths of a turn (pi/4), cos and sin in 1/TrigScale. *)
(* Every handler of the program runs to completion (JavaScript is single   *)
(* threaded), so every handler is one action.                              *)
(***************************************************************************)
EXTENDS Integers, Sequences, FiniteSets, TLC

VARIABLES
    canvas,            \* [width, height] of this.canvas, in px
    lastTime,          \* this.lastTime: 0 = reset, 1 = timestamp of the previous frame
    timeAccumulator,   \* this.timeAccumulator, in 1/TimeScale ms
    score,             \* this.score
    lives,             \* this.lives
    lemons,            \* this.lemons: sequence of body records
    gameActive,        \* this.gameActive
    fruitsSliced,      \* this.fruitsSliced
    gameStartTime,     \* this.gameStartTime (ms)
    difficulty,        \* this.difficulty, in 1/DiffScale
    floatingTexts,     \* this.floatingTexts
    blade,             \* this.blade: [positions, active]
    hidden,            \* 'hidden' class of the elements menu, game-over and hud
    finalScoreText,    \* number shown in #final-score by gameOver()
    fruitsCutText,     \* number shown in #fruits-cut by gameOver()
    now,               \* the value Date.now() returns (ms)
    spawnTimers,       \* number of pending setTimeout(spawnLemons) callbacks
    rafPending,        \* number of pending requestAnimationFrame(gameLoop) callbacks
    hist,              \* history of the current session (observation only)
    lastFrame,         \* what the last gameLoop callback did (observation only)
    nextId,            \* identity given to the next spawned body (observation only)
    ticks,             \* fixed updates run so far (exploration bound)
    events,            \* environment events so far (exploration bound)
    cfg,               \* the explored scenario: input sets and exploration bounds
    probe              \* the last direct call of a function and its result (observation only)

vars == <<canvas, lastTime, timeAccumulator, score, lives, lemons, gameActive,
          fruitsSliced, gameStartTime, difficulty, floatingTexts, blade, hidden,
          finalScoreText, fruitsCutText, now, spawnTimers, rafPending, hist,
          lastFrame, nextId, ticks, events, cfg, probe>>

----------------------------------------------------------------------------
(* Exploration bounds *)

MaxTicks == 2
MaxEvents == 5
FlightTicks == 270
FlightEvents == 4
FrameTicks == 5
FrameEvents == 2
MaxNow == 200000
ClockTicks == 1
ClockEvents == 5
ClockNow == 350000
ProbeCalls == 2
ProbeEvents == 2
LiveTicks == 270
LiveEvents == 3

(* Units of the fixed-point representation *)

Units == [Scale |-> 10, TimeScale |-> 3, DiffScale |-> 100000, TrigScale |-> 1000]

Scale == Units.Scale

TimeScale == Units.TimeScale

DiffScale == Units.DiffScale

TrigScale == Units.TrigScale

(* Program constants *)

isMobile == FALSE

fixedTimeStep == 50

maxDeltaTime == 32 * TimeScale

initialLives == 3

sliceForce == 8

regularPoints == 10

bottomMargin == 100

spawnMargin == 50

restitutionTenths == 8

mobileSettings ==
    [baseThrowForce |-> -20 * Scale, gravity |-> 2, fruitSize |-> 50,
     spawnDelay |-> 2500, minSpawnDelay |-> 800, trailLength |-> 8,
     maxFruitsPerSpawn |-> 2]

desktopSettings ==
    [baseThrowForce |-> -30 * Scale, gravity |-> 3, fruitSize |-> 60,
     spawnDelay |-> 2000, minSpawnDelay |-> 600, trailLength |-> 15,
     maxFruitsPerSpawn |-> 3]

settings == IF isMobile THEN mobileSettings ELSE desktopSettings

specialFruits ==
    << [name |-> "lemonogata", points |-> 300, size |-> IF isMobile THEN 70 ELSE 80],
       [name |-> "apple",      points |-> 150, size |-> IF isMobile THEN 70 ELSE 80],
       [name |-> "grapefruit", points |-> 50,  size |-> IF isMobile THEN 70 ELSE 80],
       [name |-> "lime",       points |-> 100, size |-> IF isMobile THEN 70 ELSE 80] >>

difficultySettings ==
    [baseSpawnDelay |-> settings.spawnDelay,
     minSpawnDelay |-> settings.minSpawnDelay,
     maxFruitsPerSpawn |-> settings.maxFruitsPerSpawn,
     difficultyIncrease |-> DiffScale \div 10,
     maxDifficulty |-> 3 * DiffScale,
     gravity |-> settings.gravity,
     baseThrowForce |-> settings.baseThrowForce]

maxPositions == IF isMobile THEN mobileSettings.trailLength ELSE desktopSettings.trailLength

----------------------------------------------------------------------------
(* Arithmetic helpers *)

Abs(n) == IF n < 0 THEN -n ELSE n

Min(a, b) == IF a < b THEN a ELSE b

Max(a, b) == IF a > b THEN a ELSE b

\* F(v), with v computed once whatever the number of times F uses it.
Bind(v, F(_)) == CHOOSE result \in {F(x) : x \in {v}} : TRUE

RECURSIVE MulDivNat(_, _, _)
\* [q, r] with a * b = q * c + r and 0 <= r < c, for a >= 0, b >= 0 and c > 0,
\* computed bit by bit of b so that no intermediate value leaves 32 bits.
MulDivNat(a, b, c) ==
    IF b = 0 THEN [q |-> 0, r |-> 0]
    ELSE Bind(MulDivNat(a, b \div 2, c),
              LAMBDA h : [q |-> 2 * h.q + ((2 * h.r + (b % 2) * a) \div c),
                          r |-> (2 * h.r + (b % 2) * a) % c])

\* floor(a * b / c) for a >= 0, c > 0 and any b.
MulDiv(a, b, c) ==
    IF b >= 0 THEN MulDivNat(a, b, c).q
    ELSE Bind(MulDivNat(a, -b, c), LAMBDA m : IF m.r = 0 THEN -m.q ELSE -m.q - 1)

RECURSIVE SqrtBetween(_, _, _)
\* The largest k in lo..hi with k * k <= n (lo * lo <= n is given).
SqrtBetween(n, lo, hi) ==
    IF lo >= hi THEN lo
    ELSE Bind((lo + hi + 1) \div 2,
              LAMBDA mid : IF mid * mid <= n THEN SqrtBetween(n, mid, hi)
                           ELSE SqrtBetween(n, lo, mid - 1))

\* Math.sqrt, rounded down to the fixed-point grid.
Sqrt(n) == SqrtBetween(n, 0, Min(n, 46340))

\* Math.cos and Math.sin of an angle given in eighths of a turn, in 1/TrigScale.
Cos(a) == <<1000, 707, 0, -707, -1000, -707, 0, 707>>[(a % 8) + 1]

Sin(a) == <<0, 707, 1000, 707, 0, -707, -1000, -707>>[(a % 8) + 1]

\* A sequence without its i-th element: Array.prototype.splice(i, 1).
Splice(seq, i) == SubSeq(seq, 1, i - 1) \o SubSeq(seq, i + 1, Len(seq))

\* Math.atan2(dy, dx) in eighths of a turn, in (-4, 4]: exact for axis-parallel and
\* diagonal directions (the directions of the explored trails), rounded down to the
\* eighth below for any other direction.
Atan2(dy, dx) ==
    CASE dy = 0 /\ dx >= 0 -> 0
      [] dy = 0 /\ dx < 0  -> 4
      [] dy > 0 /\ dx > 0  -> IF dy >= dx THEN 1 ELSE 0
      [] dy > 0 /\ dx = 0  -> 2
      [] dy > 0 /\ dx < 0  -> IF dy > -dx THEN 2 ELSE 3
      [] dy < 0 /\ dx > 0  -> IF -dy > dx THEN -2 ELSE -1
      [] dy < 0 /\ dx = 0  -> -2
      [] OTHER             -> IF -dy >= -dx THEN -3 ELSE -4

----------------------------------------------------------------------------
(* Floating score texts *)

scoreColors == [p \in {10, 50, 100, 150, 300} |->
                   CASE p = 10  -> "#FFFFFF"
                     [] p = 50  -> "#90EE90"
                     [] p = 100 -> "#FFD700"
                     [] p = 150 -> "#FFA500"
                     [] OTHER   -> "#FF69B4"]

\* The color of the largest defined point value not above points, white below all.
getScoreColor(points) ==
    LET reached == {v \in DOMAIN scoreColors : points >= v}
    IN  IF reached = {} THEN scoreColors[10]
        ELSE scoreColors[CHOOSE v \in reached : \A w \in reached : w <= v]

createFloatingText(texts, x, y, points) ==
    Append(texts, [x |-> x, y |-> y, text |-> points, color |-> getScoreColor(points),
                   alpha |-> 1000, scale |-> 1000, life |-> 500, creation |-> now])

\* Texts whose age reached their life are removed; the others float up one px and fade.
updateFloatingTexts(texts) ==
    LET alive == SelectSeq(texts, LAMBDA t : now - t.creation < t.life)
    IN  <<>> \o [k \in 1..Len(alive) |->
            LET t == alive[k]
                age == now - t.creation
            IN  [t EXCEPT !.y = @ - Scale,
                          !.alpha = 1000 - (age * 1000) \div t.life,
                          !.scale = 1000 + (age * 500) \div t.life]]

----------------------------------------------------------------------------
(* Geometry and collision *)

\* pointToLineDistance without the clamping of lines 542-548: the distance to the line.
pointToLineDistanceUnclamped(x, y, x1, y1, x2, y2) ==
    LET A == x - x1
        B == y - y1
        C == x2 - x1
        D == y2 - y1
        dot == A * C + B * D
        lenSq == C * C + D * D
        xx == IF lenSq = 0 THEN x1 ELSE x1 + MulDiv(dot, C, lenSq)
        yy == IF lenSq = 0 THEN y1 ELSE y1 + MulDiv(dot, D, lenSq)
        dx == x - xx
        dy == y - yy
    IN  Sqrt(dx * dx + dy * dy)

\* Distance from (x, y) to the segment (x1, y1)-(x2, y2), all in 1/Scale px.
\* param = dot / lenSq is compared as a fraction; param = -1 when lenSq = 0.
pointToLineDistance(x, y, x1, y1, x2, y2) ==
    LET A == x - x1
        B == y - y1
        C == x2 - x1
        D == y2 - y1
        dot == A * C + B * D
        lenSq == C * C + D * D
        before == lenSq = 0 \/ dot < 0
        after == lenSq # 0 /\ dot > lenSq
        xx == IF before THEN x1 ELSE IF after THEN x2 ELSE x1 + MulDiv(dot, C, lenSq)
        yy == IF before THEN y1 ELSE IF after THEN y2 ELSE y1 + MulDiv(dot, D, lenSq)
        dx == x - xx
        dy == y - yy
    IN  Sqrt(dx * dx + dy * dy)

hitRadius(lemon) == (IF lemon.isSpecial THEN 40 ELSE 30) * Scale

pointsOf(lemon) == IF lemon.isSpecial THEN specialFruits[lemon.specialFruit].points
                   ELSE regularPoints

\* Distance from the center of lemon to the trail segment that ends at point i.
segmentDistance(lemon, i) ==
    pointToLineDistance(lemon.x + (lemon.width * Scale) \div 2,
                        lemon.y + (lemon.height * Scale) \div 2,
                        blade.positions[i - 1].x * Scale, blade.positions[i - 1].y * Scale,
                        blade.positions[i].x * Scale, blade.positions[i].y * Scale)

\* firstHit with the test distance <= radius (line 492).
firstHitInclusive(lemon) ==
    LET first(hits) == IF hits = {} THEN 0 ELSE CHOOSE h \in hits : \A k \in hits : h <= k
    IN  first({i \in 2..Len(blade.positions) : segmentDistance(lemon, i) <= hitRadius(lemon)})

\* firstHit going through the trail from the newest segment to the oldest.
firstHitNewest(lemon) ==
    LET last(hits) == IF hits = {} THEN 0 ELSE CHOOSE h \in hits : \A k \in hits : h >= k
    IN  last({i \in 2..Len(blade.positions) : segmentDistance(lemon, i) < hitRadius(lemon)})

\* The loop of lines 479-524: the end point of the first trail segment (oldest first)
\* that is closer to the center than the hit radius, 0 when there is none.
firstHit(lemon) ==
    LET first(hits) == IF hits = {} THEN 0 ELSE CHOOSE h \in hits : \A k \in hits : h <= k
    IN  first({i \in 2..Len(blade.positions) : segmentDistance(lemon, i) < hitRadius(lemon)})

\* sliceAlong with the halves starting unturned
\* (rotation: 0 at lines 503 and 512).
sliceAlongUnturned(lemon, texts, i) ==
    LET halves(sliceAngle, impulseX, impulseY) ==
            [lemon EXCEPT
                !.sliceAngle = sliceAngle,
                !.leftHalf = [offsetX |-> 0, offsetY |-> 0,
                              rotation |-> 0,
                              speedX |-> lemon.speedX - impulseX,
                              speedY |-> lemon.speedY - impulseY,
                              rotationSpeed |-> -10],
                !.rightHalf = [offsetX |-> 0, offsetY |-> 0,
                               rotation |-> 0,
                               speedX |-> lemon.speedX + impulseX,
                               speedY |-> lemon.speedY + impulseY,
                               rotationSpeed |-> 10]]
        along(sliceAngle) ==
            halves(sliceAngle,
                   (Cos(sliceAngle + 2) * sliceForce * Scale) \div TrigScale,
                   (Sin(sliceAngle + 2) * sliceForce * Scale) \div TrigScale)
    IN  [hit |-> TRUE,
         lemon |-> along(Atan2(blade.positions[i].y - blade.positions[i - 1].y,
                               blade.positions[i].x - blade.positions[i - 1].x)),
         floatingTexts |-> createFloatingText(texts,
                                              lemon.x + (lemon.width * Scale) \div 2,
                                              lemon.y + (lemon.height * Scale) \div 2,
                                              pointsOf(lemon))]

\* Lines 494-520: the body and the texts after the segment ending at point i hit.
sliceAlong(lemon, texts, i) ==
    LET halves(sliceAngle, impulseX, impulseY) ==
            [lemon EXCEPT
                !.sliceAngle = sliceAngle,
                !.leftHalf = [offsetX |-> 0, offsetY |-> 0,
                              rotation |-> lemon.rotation,
                              speedX |-> lemon.speedX - impulseX,
                              speedY |-> lemon.speedY - impulseY,
                              rotationSpeed |-> -10],
                !.rightHalf = [offsetX |-> 0, offsetY |-> 0,
                               rotation |-> lemon.rotation,
                               speedX |-> lemon.speedX + impulseX,
                               speedY |-> lemon.speedY + impulseY,
                               rotationSpeed |-> 10]]
        along(sliceAngle) ==
            halves(sliceAngle,
                   (Cos(sliceAngle + 2) * sliceForce * Scale) \div TrigScale,
                   (Sin(sliceAngle + 2) * sliceForce * Scale) \div TrigScale)
    IN  [hit |-> TRUE,
         lemon |-> along(Atan2(blade.positions[i].y - blade.positions[i - 1].y,
                               blade.positions[i].x - blade.positions[i - 1].x)),
         floatingTexts |-> createFloatingText(texts,
                                              lemon.x + (lemon.width * Scale) \div 2,
                                              lemon.y + (lemon.height * Scale) \div 2,
                                              pointsOf(lemon))]

\* checkCollision without the early return of line 477.
checkCollisionAgain(lemon, texts) ==
    LET hitAt(i) == IF i = 0 THEN [hit |-> FALSE, lemon |-> lemon, floatingTexts |-> texts]
                    ELSE sliceAlong(lemon, texts, i)
    IN  Bind(firstHit(lemon), hitAt)

\* checkCollision taking a trail of one point for a segment of length zero.
checkCollisionLone(lemon, texts) ==
    LET hitAt(i) == IF i = 0 THEN [hit |-> FALSE, lemon |-> lemon, floatingTexts |-> texts]
                    ELSE sliceAlong(lemon, texts, i)
        cx == lemon.x + (lemon.width * Scale) \div 2
        cy == lemon.y + (lemon.height * Scale) \div 2
        lone(p) == pointToLineDistance(cx, cy, p.x * Scale, p.y * Scale,
                                       p.x * Scale, p.y * Scale) < hitRadius(lemon)
    IN  IF lemon.sliced THEN [hit |-> FALSE, lemon |-> lemon, floatingTexts |-> texts]
        ELSE IF Len(blade.positions) = 1 /\ lone(blade.positions[1])
        THEN [hit |-> TRUE, lemon |-> [lemon EXCEPT !.sliceAngle = 0],
              floatingTexts |-> createFloatingText(texts, cx, cy, pointsOf(lemon))]
        ELSE Bind(firstHit(lemon), hitAt)

\* checkCollision(lemon), lines 476-526: [hit, lemon, floatingTexts] after the call.
checkCollision(lemon, texts) ==
    LET hitAt(i) == IF i = 0 THEN [hit |-> FALSE, lemon |-> lemon, floatingTexts |-> texts]
                    ELSE sliceAlong(lemon, texts, i)
    IN  IF lemon.sliced THEN [hit |-> FALSE, lemon |-> lemon, floatingTexts |-> texts]
        ELSE Bind(firstHit(lemon), hitAt)

----------------------------------------------------------------------------
(* Physics *)

bounce(speedX) == (Abs(speedX) * restitutionTenths) \div 10

handleBoundaryHalf(lemon, half) ==
    LET halfX == lemon.x + half.offsetX
    IN  IF halfX < 0
        THEN [half EXCEPT !.offsetX = -lemon.x, !.speedX = bounce(half.speedX)]
        ELSE IF halfX + lemon.width * Scale > canvas.width * Scale
        THEN [half EXCEPT !.offsetX = canvas.width * Scale - lemon.width * Scale - lemon.x,
                          !.speedX = -bounce(half.speedX)]
        ELSE half

\* handleBoundaryCollision keeping the direction of travel at the right edge (line 566).
handleBoundaryCollisionThrough(lemon) ==
    IF ~lemon.sliced
    THEN IF lemon.x < 0
         THEN [lemon EXCEPT !.x = 0, !.speedX = bounce(lemon.speedX)]
         ELSE IF lemon.x + lemon.width * Scale > canvas.width * Scale
         THEN [lemon EXCEPT !.x = canvas.width * Scale - lemon.width * Scale,
                            !.speedX = bounce(lemon.speedX)]
         ELSE lemon
    ELSE [lemon EXCEPT !.leftHalf = handleBoundaryHalf(lemon, lemon.leftHalf),
                       !.rightHalf = handleBoundaryHalf(lemon, lemon.rightHalf)]

handleBoundaryCollision(lemon) ==
    IF ~lemon.sliced
    THEN IF lemon.x < 0
         THEN [lemon EXCEPT !.x = 0, !.speedX = bounce(lemon.speedX)]
         ELSE IF lemon.x + lemon.width * Scale > canvas.width * Scale
         THEN [lemon EXCEPT !.x = canvas.width * Scale - lemon.width * Scale,
                            !.speedX = -bounce(lemon.speedX)]
         ELSE lemon
    ELSE [lemon EXCEPT !.leftHalf = handleBoundaryHalf(lemon, lemon.leftHalf),
                       !.rightHalf = handleBoundaryHalf(lemon, lemon.rightHalf)]

\* v * dt * 60 with dt = deltaMs / 1000 s.
PerStep(v, deltaMs) == (v * deltaMs * 60) \div (1000 * TimeScale)

integrateHalf(half, deltaMs) ==
    [half EXCEPT !.offsetX = @ + PerStep(half.speedX, deltaMs),
                 !.offsetY = @ + PerStep(half.speedY, deltaMs),
                 !.speedY = @ + PerStep(difficultySettings.gravity, deltaMs),
                 !.rotation = @ + PerStep(half.rotationSpeed, deltaMs)]

\* integrate carrying the body along with its halves once it is sliced.
integrateCarried(lemon, deltaMs) ==
    IF ~lemon.sliced
    THEN [lemon EXCEPT !.x = @ + PerStep(lemon.speedX, deltaMs),
                       !.y = @ + PerStep(lemon.speedY, deltaMs),
                       !.speedY = @ + PerStep(difficultySettings.gravity, deltaMs),
                       !.rotation = @ + PerStep(lemon.rotationSpeed, deltaMs)]
    ELSE [lemon EXCEPT !.y = @ + PerStep(lemon.speedY, deltaMs),
                       !.speedY = @ + PerStep(difficultySettings.gravity, deltaMs),
                       !.leftHalf = integrateHalf(lemon.leftHalf, deltaMs),
                       !.rightHalf = integrateHalf(lemon.rightHalf, deltaMs)]

\* Lines 629-645: the whole body moves while unsliced, its two halves once sliced.
integrate(lemon, deltaMs) ==
    IF ~lemon.sliced
    THEN [lemon EXCEPT !.x = @ + PerStep(lemon.speedX, deltaMs),
                       !.y = @ + PerStep(lemon.speedY, deltaMs),
                       !.speedY = @ + PerStep(difficultySettings.gravity, deltaMs),
                       !.rotation = @ + PerStep(lemon.rotationSpeed, deltaMs)]
    ELSE [lemon EXCEPT !.leftHalf = integrateHalf(lemon.leftHalf, deltaMs),
                       !.rightHalf = integrateHalf(lemon.rightHalf, deltaMs)]


----------------------------------------------------------------------------
(* The fixed update.  The game fields a fixed update writes travel in a record g:   *)
(* lemons, score, lives, fruitsSliced, floatingTexts, gameActive, hidden,           *)
(* finalScoreText, fruitsCutText, and the session history hist.                     *)

Game == [lemons |-> lemons, score |-> score, lives |-> lives,
         fruitsSliced |-> fruitsSliced, floatingTexts |-> floatingTexts,
         gameActive |-> gameActive, hidden |-> hidden,
         finalScoreText |-> finalScoreText, fruitsCutText |-> fruitsCutText,
         hist |-> hist]

\* What the registry holds, as far as the frozen state of a finished session goes.
Frozen(g) == [score |-> g.score, lives |-> g.lives, fruitsSliced |-> g.fruitsSliced,
              bodies |-> {<<g.lemons[k].id, g.lemons[k].sliced>> : k \in 1..Len(g.lemons)}]

gameOver(g) ==
    [g EXCEPT !.gameActive = FALSE,
              !.hidden = [@ EXCEPT !.gameOver = FALSE, !.hud = TRUE],
              !.finalScoreText = g.score,
              !.fruitsCutText = g.fruitsSliced,
              !.hist = [@ EXCEPT !.gameOverCalls = @ + 1,
                                 !.atGameOver = IF g.gameActive THEN <<Frozen(g)>> ELSE @]]

\* sliceOnHit setting the score to the points of the hit (score = at lines 653, 655).
sliceOnHitFlat(g, lemon) ==
    LET scored(col) ==
            IF col.hit
            THEN [g |-> [g EXCEPT !.floatingTexts = col.floatingTexts,
                                  !.score = pointsOf(lemon),
                                  !.fruitsSliced = @ + 1,
                                  !.hist.emitted = @ + Len(col.floatingTexts)
                                                     - Len(g.floatingTexts)],
                  lemon |-> [col.lemon EXCEPT !.sliced = TRUE]]
            ELSE [g |-> g, lemon |-> lemon]
    IN  IF lemon.sliced THEN [g |-> g, lemon |-> lemon]
        ELSE Bind(checkCollision(lemon, g.floatingTexts), scored)

\* sliceOnHit creating a floating text of its own after that of checkCollision.
sliceOnHitEcho(g, lemon) ==
    LET echoed(col) ==
            createFloatingText(col.floatingTexts, lemon.x + (lemon.width * Scale) \div 2,
                               lemon.y + (lemon.height * Scale) \div 2, pointsOf(lemon))
        scored(col) ==
            IF col.hit
            THEN [g |-> [g EXCEPT !.floatingTexts = echoed(col),
                                  !.score = @ + pointsOf(lemon),
                                  !.fruitsSliced = @ + 1,
                                  !.hist.emitted = @ + Len(echoed(col))
                                                     - Len(g.floatingTexts)],
                  lemon |-> [col.lemon EXCEPT !.sliced = TRUE]]
            ELSE [g |-> g, lemon |-> lemon]
    IN  IF lemon.sliced THEN [g |-> g, lemon |-> lemon]
        ELSE Bind(checkCollision(lemon, g.floatingTexts), scored)

\* Lines 650-659: an unsliced body that the trail hits is sliced and scored.
sliceOnHit(g, lemon) ==
    LET scored(col) ==
            IF col.hit
            THEN [g |-> [g EXCEPT !.floatingTexts = col.floatingTexts,
                                  !.score = @ + pointsOf(lemon),
                                  !.fruitsSliced = @ + 1,
                                  !.hist.emitted = @ + Len(col.floatingTexts)
                                                     - Len(g.floatingTexts)],
                  lemon |-> [col.lemon EXCEPT !.sliced = TRUE]]
            ELSE [g |-> g, lemon |-> lemon]
    IN  IF lemon.sliced THEN [g |-> g, lemon |-> lemon]
        ELSE Bind(checkCollision(lemon, g.floatingTexts), scored)

Removal(lemon) ==
    [id |-> lemon.id, sliced |-> lemon.sliced, y |-> lemon.y,
     leftY |-> lemon.y + lemon.leftHalf.offsetY,
     rightY |-> lemon.y + lemon.rightHalf.offsetY,
     limit |-> (canvas.height + bottomMargin) * Scale]

\* removeOffscreen ending the game only below zero lives (lives < 0 at line 666).
removeOffscreenLate(g, i, lemon) ==
    LET limit == (canvas.height + bottomMargin) * Scale
        logged == [g EXCEPT !.lemons = Splice(@, i),
                            !.hist.removed = Append(@, Removal(lemon))]
    IN  IF ~lemon.sliced /\ lemon.y > limit
        THEN LET lost == [logged EXCEPT !.lives = @ - 1]
             IN  IF lost.lives < 0 THEN gameOver(lost) ELSE lost
        ELSE IF lemon.sliced /\ lemon.leftHalf.offsetY > limit
                             /\ lemon.rightHalf.offsetY > limit
        THEN logged
        ELSE [g EXCEPT !.lemons[i] = lemon]

\* removeOffscreen taking a life for a sliced body too (lives-- at line 672).
removeOffscreenCostly(g, i, lemon) ==
    LET limit == (canvas.height + bottomMargin) * Scale
        logged == [g EXCEPT !.lemons = Splice(@, i),
                            !.hist.removed = Append(@, Removal(lemon))]
    IN  IF ~lemon.sliced /\ lemon.y > limit
        THEN LET lost == [logged EXCEPT !.lives = @ - 1]
             IN  IF lost.lives <= 0 THEN gameOver(lost) ELSE lost
        ELSE IF lemon.sliced /\ lemon.leftHalf.offsetY > limit
                             /\ lemon.rightHalf.offsetY > limit
        THEN [logged EXCEPT !.lives = @ - 1]
        ELSE [g EXCEPT !.lemons[i] = lemon]

\* removeOffscreen leaving an expired unsliced body in the registry (no splice at
\* line 663).
removeOffscreenStay(g, i, lemon) ==
    LET limit == (canvas.height + bottomMargin) * Scale
        logged == [g EXCEPT !.lemons = Splice(@, i),
                            !.hist.removed = Append(@, Removal(lemon))]
        kept == [g EXCEPT !.lemons[i] = lemon]
    IN  IF ~lemon.sliced /\ lemon.y > limit
        THEN LET lost == [kept EXCEPT !.lives = @ - 1]
             IN  IF lost.lives <= 0 THEN gameOver(lost) ELSE lost
        ELSE IF lemon.sliced /\ lemon.leftHalf.offsetY > limit
                             /\ lemon.rightHalf.offsetY > limit
        THEN logged
        ELSE kept

\* removeOffscreen without the removal of sliced bodies (lines 669-673).
removeOffscreenWholeOnly(g, i, lemon) ==
    LET limit == (canvas.height + bottomMargin) * Scale
        logged == [g EXCEPT !.lemons = Splice(@, i),
                            !.hist.removed = Append(@, Removal(lemon))]
    IN  IF ~lemon.sliced /\ lemon.y > limit
        THEN LET lost == [logged EXCEPT !.lives = @ - 1]
             IN  IF lost.lives <= 0 THEN gameOver(lost) ELSE lost
        ELSE [g EXCEPT !.lemons[i] = lemon]

\* Lines 661-673: the body at index i, now in state lemon, leaves the registry when it
\* is off screen; an unsliced one costs a life and may end the game.
removeOffscreen(g, i, lemon) ==
    LET limit == (canvas.height + bottomMargin) * Scale
        logged == [g EXCEPT !.lemons = Splice(@, i),
                            !.hist.removed = Append(@, Removal(lemon))]
    IN  IF ~lemon.sliced /\ lemon.y > limit
        THEN LET lost == [logged EXCEPT !.lives = @ - 1]
             IN  IF lost.lives <= 0 THEN gameOver(lost) ELSE lost
        ELSE IF lemon.sliced /\ lemon.leftHalf.offsetY > limit
                             /\ lemon.rightHalf.offsetY > limit
        THEN logged
        ELSE [g EXCEPT !.lemons[i] = lemon]

\* One pass of the loop body of updateGame (lines 627-673) for the body at index i.
updateLemon(g, i, deltaMs) ==
    Bind(handleBoundaryCollision(integrate(g.lemons[i], deltaMs)),
         LAMBDA moved : Bind(sliceOnHit(g, moved),
                             LAMBDA cut : removeOffscreen(cut.g, i, cut.lemon)))

RECURSIVE forwardFrom(_, _, _)
\* for (let i = 0; i < this.lemons.length; i++), here from index j upwards.
forwardFrom(g, j, deltaMs) ==
    IF j > Len(g.lemons) THEN g
    ELSE Bind(updateLemon(g, j, deltaMs), LAMBDA g1 : forwardFrom(g1, j + 1, deltaMs))

\* updateLemons going through the registry from its first body to its last.
updateLemonsForward(g, i, deltaMs) == forwardFrom(g, 1, deltaMs)

RECURSIVE updateLemons(_, _, _)
\* for (let i = this.lemons.length - 1; i >= 0; i--), here from index i down to 1.
updateLemons(g, i, deltaMs) ==
    IF i = 0 THEN g
    ELSE Bind(updateLemon(g, i, deltaMs), LAMBDA g1 : updateLemons(g1, i - 1, deltaMs))

updateGame(g, deltaMs) ==
    Bind([g EXCEPT !.floatingTexts = updateFloatingTexts(@)],
         LAMBDA g1 : updateLemons(g1, Len(g.lemons), deltaMs))

\* The unsliced bodies of a registry that are below the bottom threshold.
Overdue(registry) ==
    {k \in 1..Len(registry) :
        ~registry[k].sliced /\ registry[k].y > (canvas.height + bottomMargin) * Scale}

\* What is observed of the game at the end of one fixed update.
EndOfUpdate(g) ==
    [gameActive |-> g.gameActive, lives |-> g.lives, overdue |-> Cardinality(Overdue(g.lemons))]

RECURSIVE runFixedUpdatesStrict(_, _, _)
\* The loop with the condition timeAccumulator > fixedTimeStep.
runFixedUpdatesStrict(g, acc, ends) ==
    LET continue(g1) ==
            runFixedUpdatesStrict(g1, acc - fixedTimeStep, Append(ends, EndOfUpdate(g1)))
    IN  IF acc > fixedTimeStep THEN Bind(updateGame(g, fixedTimeStep), continue)
        ELSE [g |-> g, acc |-> acc, ends |-> ends]

RECURSIVE runFixedUpdates(_, _, _)
\* while (this.timeAccumulator >= this.fixedTimeStep) { updateGame; accumulator -= step }
\* [g, acc, ends]: ends lists what is observed at the end of each update.
runFixedUpdates(g, acc, ends) ==
    LET continue(g1) ==
            runFixedUpdates(g1, acc - fixedTimeStep, Append(ends, EndOfUpdate(g1)))
    IN  IF acc >= fixedTimeStep THEN Bind(updateGame(g, fixedTimeStep), continue)
        ELSE [g |-> g, acc |-> acc, ends |-> ends]

----------------------------------------------------------------------------
(* Scenarios: the sets the inputs (random draws, pointer positions, window sizes,   *)
(* frame times, clock readings) are taken from, and the exploration bounds.         *)

\* A draw of the random values of one spawned body (lines 358-377).
Template(x, speedX, speedY, rotation, rotationSpeed, special) ==
    [x |-> x, speedX |-> speedX, speedY |-> speedY, rotation |-> rotation,
     rotationSpeed |-> rotationSpeed, special |-> special]

Regular == Template(100 * Scale, 0, -30 * Scale, 0, 5, 0)

Aside == Template(250 * Scale, 0, -30 * Scale, 0, 5, 0)

Special == Template(250 * Scale, -4 * Scale, -25 * Scale, 100, -5, 1)

CanvasSizes == {[width |-> 400, height |-> 110], [width |-> 400, height |-> 400]}

BladePoints == {[x |-> 100, y |-> 150], [x |-> 160, y |-> 150]}

MainScenario ==
    [maxTicks |-> MaxTicks, maxEvents |-> MaxEvents, eventWindow |-> MaxTicks,
     deltas |-> {fixedTimeStep, 40 * TimeScale}, clockSteps |-> {200000},
     maxNow |-> MaxNow,
     templates |-> {Regular}, canvasSizes |-> CanvasSizes, points |-> BladePoints]

FlightScenario ==
    [maxTicks |-> FlightTicks, maxEvents |-> FlightEvents, eventWindow |-> 0,
     deltas |-> {fixedTimeStep}, clockSteps |-> {100000}, maxNow |-> MaxNow,
     templates |-> {Regular, Aside},
     canvasSizes |-> CanvasSizes,
     points |-> {[x |-> 100, y |-> 0], [x |-> 160, y |-> 0]}]

FrameScenario ==
    [maxTicks |-> FrameTicks, maxEvents |-> FrameEvents, eventWindow |-> FrameTicks,
     deltas |-> {0, 25, fixedTimeStep, 75, 32 * TimeScale, 40 * TimeScale, 1000 * TimeScale},
     clockSteps |-> {200000}, maxNow |-> MaxNow,
     templates |-> {Regular}, canvasSizes |-> CanvasSizes, points |-> BladePoints]

\* Whole flights in low playfields, where every flight ends within the explored ticks.
LiveScenario ==
    [maxTicks |-> LiveTicks, maxEvents |-> LiveEvents, eventWindow |-> 0,
     deltas |-> {fixedTimeStep}, clockSteps |-> {100000}, maxNow |-> MaxNow,
     templates |-> {Regular},
     canvasSizes |-> {[width |-> 400, height |-> 110], [width |-> 400, height |-> 100]},
     points |-> {[x |-> 100, y |-> 0], [x |-> 160, y |-> 0]}]

\* Long sessions: the clock advances by 100 s and 250 s between the events.
ClockScenario ==
    [maxTicks |-> ClockTicks, maxEvents |-> ClockEvents, eventWindow |-> ClockTicks,
     deltas |-> {fixedTimeStep}, clockSteps |-> {100000, 250000}, maxNow |-> ClockNow,
     templates |-> {Regular}, canvasSizes |-> CanvasSizes,
     points |-> {[x |-> 100, y |-> 150]}]

----------------------------------------------------------------------------
(* Spawning *)

\* updateDifficulty without the cap at maxDifficulty.
updateDifficultyUncapped(startTime) ==
    DiffScale + MulDiv(now - startTime, difficultySettings.difficultyIncrease, 10 * 1000)

\* updateDifficulty(): min(maxDifficulty, 1 + (seconds / 10) * difficultyIncrease).
updateDifficulty(startTime) ==
    Min(difficultySettings.maxDifficulty,
        DiffScale + MulDiv(now - startTime, difficultySettings.difficultyIncrease, 10 * 1000))

\* getSpawnCount(), extra = Math.floor(random * difficulty).
getSpawnCount(extra) == Min(1 + extra, difficultySettings.maxFruitsPerSpawn)

\* The values floor(random * d) can take for random in [0, 1).
ExtraCounts(d) == {k \in 0..3 : k * DiffScale < d}

\* Whether the draw t lies in the ranges of lines 354, 367, 372, 374, 375 at difficulty d.
ValidDraw(t, d) ==
    LET spawnWidth == (canvas.width * Scale * (IF isMobile THEN 7 ELSE 8)) \div 10
        left == (canvas.width * Scale - spawnWidth) \div 2
        maxExtraForce == IF isMobile THEN 5 ELSE 8
        extra == t.speedY - difficultySettings.baseThrowForce
        reach == (IF isMobile THEN 3 ELSE 4) * Scale
    IN  /\ left <= t.x /\ t.x < left + spawnWidth
        /\ extra >= 0
        /\ extra * extra * (DiffScale \div (Scale * Scale)) < maxExtraForce * maxExtraForce * d
        /\ -reach * (DiffScale + d) <= t.speedX * DiffScale
        /\ t.speedX * DiffScale < reach * (DiffScale + d)
        /\ 0 <= t.rotation /\ t.rotation < 629
        /\ -10 <= t.rotationSpeed /\ t.rotationSpeed < 10
        /\ t.special \in 0..Len(specialFruits)

\* The batches spawnLemons can draw: count draws with ascending x (line 355).
Batches(count, d) ==
    {b \in [1..count -> cfg.templates] :
        /\ \A k \in 1..count : ValidDraw(b[k], d)
        /\ \A k \in 1..(count - 1) : b[k].x <= b[k + 1].x}

\* The body of lines 369-398 for the draw t.
newLemon(t, id) ==
    LET isSpecial == t.special # 0
        zeroHalf == [offsetX |-> 0, offsetY |-> 0, rotation |-> 0,
                     speedX |-> 0, speedY |-> 0, rotationSpeed |-> 0]
    IN  [id |-> id,
         x |-> t.x,
         y |-> (canvas.height + spawnMargin) * Scale,
         speedX |-> t.speedX,
         speedY |-> t.speedY,
         rotation |-> t.rotation,
         rotationSpeed |-> t.rotationSpeed,
         width |-> IF isSpecial THEN specialFruits[t.special].size
                   ELSE (IF isMobile THEN 50 ELSE 60),
         height |-> IF isSpecial THEN specialFruits[t.special].size
                    ELSE (IF isMobile THEN 35 ELSE 40),
         sliced |-> FALSE,
         sliceAngle |-> 0,
         isSpecial |-> isSpecial,
         specialFruit |-> t.special,
         leftHalf |-> zeroHalf,
         rightHalf |-> zeroHalf]

\* this.lemons after the pushes of one batch.
pushBatch(registry, batch) ==
    registry \o [k \in 1..Len(batch) |-> newLemon(batch[k], nextId + k - 1)]

\* recorded: the points passed to blade.update since the trail was last emptied;
\* emitted: the floating texts created in the session.
NoHistory == [gameOverCalls |-> 0, atGameOver |-> <<>>, removed |-> <<>>, recorded |-> <<>>,
              emitted |-> 0]

NoProbe == [op |-> "none"]

NoFrame == [active |-> FALSE, timed |-> FALSE, elapsed |-> 0, before |-> 0,
            updates |-> 0, renders |-> 0, after |-> 0, ends |-> <<>>]

----------------------------------------------------------------------------
(* Actions *)

CanEvent == events < cfg.maxEvents /\ ticks <= cfg.eventWindow

\* startGame(), lines 260-287: a click on the start or the play-again button, which
\* is possible while the menu or the game-over panel is shown.
StartGame ==
    /\ CanEvent
    /\ ~hidden.menu \/ ~hidden.gameOver
    /\ \E d \in {updateDifficulty(now)} :
           \E extra \in ExtraCounts(d) : \E batch \in Batches(getSpawnCount(extra), d) :
             /\ lemons' = pushBatch(<<>>, batch)
             /\ nextId' = nextId + Len(batch)
             /\ difficulty' = d
    /\ score' = 0
    /\ lives' = initialLives
    /\ blade' = [positions |-> <<>>, active |-> FALSE]
    /\ fruitsSliced' = 0
    /\ gameActive' = TRUE
    /\ gameStartTime' = now
    /\ hidden' = [menu |-> TRUE, gameOver |-> TRUE, hud |-> FALSE]
    /\ lastTime' = 0
    /\ timeAccumulator' = 0
    /\ rafPending' = rafPending + 1
    /\ spawnTimers' = spawnTimers + 1
    /\ hist' = NoHistory
    /\ events' = events + 1
    /\ UNCHANGED <<canvas, floatingTexts, finalScoreText, fruitsCutText, now,
                   lastFrame, ticks, cfg, probe>>

\* spawnLemons without the early return of line 346.
SpawnLemonsAlways ==
    /\ CanEvent
    /\ spawnTimers > 0
    /\ \E d \in {updateDifficulty(gameStartTime)} :
           \E extra \in ExtraCounts(d) : \E batch \in Batches(getSpawnCount(extra), d) :
             /\ lemons' = pushBatch(lemons, batch)
             /\ nextId' = nextId + Len(batch)
             /\ difficulty' = d
             /\ spawnTimers' = spawnTimers - 1 + 1
    /\ events' = events + 1
    /\ UNCHANGED <<canvas, lastTime, timeAccumulator, score, lives, gameActive,
                   fruitsSliced, gameStartTime, floatingTexts, blade, hidden,
                   finalScoreText, fruitsCutText, now, rafPending, hist, lastFrame,
                   ticks, cfg, probe>>

\* The callback of setTimeout(() => this.spawnLemons(), delay), lines 345-404.
SpawnLemonsTimer ==
    /\ CanEvent
    /\ spawnTimers > 0
    /\ IF ~gameActive
       THEN /\ spawnTimers' = spawnTimers - 1
            /\ UNCHANGED <<lemons, nextId, difficulty>>
       ELSE \E d \in {updateDifficulty(gameStartTime)} :
                \E extra \in ExtraCounts(d) : \E batch \in Batches(getSpawnCount(extra), d) :
                  /\ lemons' = pushBatch(lemons, batch)
                  /\ nextId' = nextId + Len(batch)
                  /\ difficulty' = d
                  /\ spawnTimers' = spawnTimers - 1 + 1
    /\ events' = events + 1
    /\ UNCHANGED <<canvas, lastTime, timeAccumulator, score, lives, gameActive,
                   fruitsSliced, gameStartTime, floatingTexts, blade, hidden,
                   finalScoreText, fruitsCutText, now, rafPending, hist, lastFrame,
                   ticks, cfg, probe>>

\* deltaTime without the cap of line 600.
deltaTimeUncapped(elapsed) == IF lastTime = 0 THEN 0 ELSE elapsed

\* Lines 595-600: the time since the previous frame, 0 on a session's first frame,
\* capped at 32 ms.
deltaTimeOf(elapsed) == IF lastTime = 0 THEN 0 ELSE Min(elapsed, maxDeltaTime)

\* The requestAnimationFrame callback gameLoop(currentTime), lines 592-616, called
\* elapsed (1/TimeScale ms) after the callback that set lastTime.
GameLoop(elapsed) ==
    /\ rafPending > 0
    /\ IF ~gameActive
       THEN /\ rafPending' = rafPending - 1
            /\ lastFrame' = NoFrame
            /\ UNCHANGED <<lastTime, timeAccumulator, score, lives, lemons, gameActive,
                           fruitsSliced, floatingTexts, hidden, finalScoreText,
                           fruitsCutText, hist, ticks>>
       ELSE \E run \in {runFixedUpdates(Game, timeAccumulator + deltaTimeOf(elapsed), <<>>)} :
                /\ ticks + Len(run.ends) <= cfg.maxTicks
                /\ ticks' = ticks + Len(run.ends)
                /\ lastTime' = 1
                /\ timeAccumulator' = run.acc
                /\ lemons' = run.g.lemons
                /\ score' = run.g.score
                /\ lives' = run.g.lives
                /\ fruitsSliced' = run.g.fruitsSliced
                /\ floatingTexts' = run.g.floatingTexts
                /\ gameActive' = run.g.gameActive
                /\ hidden' = run.g.hidden
                /\ finalScoreText' = run.g.finalScoreText
                /\ fruitsCutText' = run.g.fruitsCutText
                /\ hist' = run.g.hist
                /\ rafPending' = rafPending - 1 + 1
                /\ lastFrame' = [active |-> TRUE, timed |-> lastTime # 0,
                                 elapsed |-> elapsed, before |-> timeAccumulator,
                                 updates |-> Len(run.ends), renders |-> 1,
                                 after |-> run.acc, ends |-> run.ends]
    /\ UNCHANGED <<canvas, gameStartTime, difficulty, blade, now, spawnTimers, nextId,
                   events, cfg, probe>>

\* blade.update dropping the newest points beyond the maximum (pop for shift, line 133).
bladeUpdatePop(b, p) ==
    LET pushed == Append(b.positions, p)
        over == Max(0, Len(pushed) - maxPositions)
    IN  [b EXCEPT !.positions = SubSeq(pushed, 1, Len(pushed) - over)]

\* blade.update(x, y), lines 127-138.
bladeUpdate(b, p) ==
    LET pushed == Append(b.positions, p)
        over == Max(0, Len(pushed) - maxPositions)
    IN  [b EXCEPT !.positions = SubSeq(pushed, over + 1, Len(pushed))]

\* The mousemove listener of the canvas, lines 241-248.
MouseMove(p) ==
    /\ CanEvent
    /\ p.x < canvas.width /\ p.y < canvas.height
    /\ blade' = IF blade.active \/ gameActive THEN bladeUpdate(blade, p) ELSE blade
    /\ hist' = IF blade.active \/ gameActive THEN [hist EXCEPT !.recorded = Append(@, p)]
                ELSE hist
    /\ events' = events + 1
    /\ UNCHANGED <<canvas, lastTime, timeAccumulator, score, lives, lemons, gameActive,
                   fruitsSliced, gameStartTime, difficulty, floatingTexts, hidden,
                   finalScoreText, fruitsCutText, now, spawnTimers, rafPending,
                   lastFrame, nextId, ticks, cfg, probe>>

\* The mousedown listener, lines 250-252.
MouseDown ==
    /\ CanEvent
    /\ blade' = [blade EXCEPT !.active = TRUE]
    /\ events' = events + 1
    /\ UNCHANGED <<canvas, lastTime, timeAccumulator, score, lives, lemons, gameActive,
                   fruitsSliced, gameStartTime, difficulty, floatingTexts, hidden,
                   finalScoreText, fruitsCutText, now, spawnTimers, rafPending, hist,
                   lastFrame, nextId, ticks, cfg, probe>>

\* The mouseup listener, lines 254-256: blade.clear().
MouseUp ==
    /\ CanEvent
    /\ blade' = [positions |-> <<>>, active |-> FALSE]
    /\ hist' = [hist EXCEPT !.recorded = <<>>]
    /\ events' = events + 1
    /\ UNCHANGED <<canvas, lastTime, timeAccumulator, score, lives, lemons, gameActive,
                   fruitsSliced, gameStartTime, difficulty, floatingTexts, hidden,
                   finalScoreText, fruitsCutText, now, spawnTimers, rafPending,
                   lastFrame, nextId, ticks, cfg, probe>>

\* The resize listener, lines 156-161: resizeCanvas() takes the window's size.
Resize(size) ==
    /\ CanEvent
    /\ size # canvas
    /\ canvas' = size
    /\ events' = events + 1
    /\ UNCHANGED <<lastTime, timeAccumulator, score, lives, lemons, gameActive,
                   fruitsSliced, gameStartTime, difficulty, floatingTexts, blade, hidden,
                   finalScoreText, fruitsCutText, now, spawnTimers, rafPending, hist,
                   lastFrame, nextId, ticks, cfg, probe>>

\* Time passes: Date.now() returns a later value.
ClockTick(step) ==
    /\ CanEvent
    /\ now + step <= cfg.maxNow
    /\ now' = now + step
    /\ events' = events + 1
    /\ UNCHANGED <<canvas, lastTime, timeAccumulator, score, lives, lemons, gameActive,
                   fruitsSliced, gameStartTime, difficulty, floatingTexts, blade, hidden,
                   finalScoreText, fruitsCutText, spawnTimers, rafPending, hist,
                   lastFrame, nextId, ticks, cfg, probe>>

\* The state after the constructor (lines 2-165) in the scenario c, window size size.
Constructed(c, size) ==
    /\ cfg = c
    /\ canvas = size
    /\ lastTime = 0
    /\ timeAccumulator = 0
    /\ score = 0
    /\ lives = initialLives
    /\ lemons = <<>>
    /\ gameActive = FALSE
    /\ fruitsSliced = 0
    /\ gameStartTime = 0
    /\ difficulty = DiffScale
    /\ floatingTexts = <<>>
    /\ blade = [positions |-> <<>>, active |-> FALSE]
    /\ hidden = [menu |-> FALSE, gameOver |-> TRUE, hud |-> TRUE]
    /\ finalScoreText = 0
    /\ fruitsCutText = 0
    /\ now = 0
    /\ spawnTimers = 0
    /\ rafPending = 0
    /\ hist = NoHistory
    /\ lastFrame = NoFrame
    /\ nextId = 1
    /\ ticks = 0
    /\ events = 0

InitIn(c, size) == Constructed(c, size) /\ probe = NoProbe

Init == \E size \in MainScenario.canvasSizes : InitIn(MainScenario, size)

InitFlight == InitIn(FlightScenario, [width |-> 400, height |-> 110])

Next ==
    \/ StartGame
    \/ SpawnLemonsTimer
    \/ \E elapsed \in cfg.deltas : GameLoop(elapsed)
    \/ \E p \in cfg.points : MouseMove(p)
    \/ MouseDown
    \/ MouseUp
    \/ \E size \in cfg.canvasSizes : Resize(size)
    \/ \E step \in cfg.clockSteps : ClockTick(step)

Spec == Init /\ [][Next]_vars

SpecFlight == InitFlight /\ [][Next]_vars

InitLive == InitIn(LiveScenario, [width |-> 400, height |-> 110])

\* The browser delivers every requested animation frame while the page is shown.
FramesKeepComing == WF_vars(\E elapsed \in cfg.deltas : GameLoop(elapsed))

SpecLive == InitLive /\ [][Next]_vars /\ FramesKeepComing

InitFrame == InitIn(FrameScenario, [width |-> 400, height |-> 400])

SpecFrame == InitFrame /\ [][Next]_vars

InitClock == InitIn(ClockScenario, [width |-> 400, height |-> 400])

SpecClock == InitClock /\ [][Next]_vars

----------------------------------------------------------------------------
(* Direct calls.  checkCollision, handleBoundaryCollision and the blade are also     *)
(* exercised one call at a time, on bodies and trails drawn from the sets below, with *)
(* the arguments and the result of the last call kept in probe.                       *)

\* A point of the trail, in px.
Pt(x, y) == [x |-> x, y |-> y]

\* n points recorded left to right along y = 300, 10 px apart.
Sweep(n) == [k \in 1..n |-> Pt(10 * k, 300)]

ProbeTrails ==
    { <<>>,
      <<Pt(130, 100)>>,
      <<Pt(130, 100), Pt(130, 100)>>,
      <<Pt(0, 100), Pt(100, 100)>>,
      <<Pt(100, 100), Pt(160, 100), Pt(160, 40)>>,
      <<Pt(160, 40), Pt(160, 100), Pt(100, 100)>>,
      <<Pt(160, 400), Pt(160, 200), Pt(160, 100)>>,
      Sweep(maxPositions - 1),
      Sweep(maxPositions) }

\* An unsliced body as spawnLemons builds it, with its center at (cx, cy) px; the
\* special ones are turned by 1 rad and turn the other way.
BodyAt(special, cx, cy) ==
    LET made(l) == [l EXCEPT !.x = cx * Scale - (l.width * Scale) \div 2,
                             !.y = cy * Scale - (l.height * Scale) \div 2]
    IN  made(newLemon(Template(0, 2 * Scale, -20 * Scale, IF special = 0 THEN 0 ELSE 100,
                               IF special = 0 THEN 5 ELSE -5, special), 1))

\* An unsliced regular body after integration, at x (1/Scale px) with speed speedX.
BodyMoving(x, speedX) ==
    [newLemon(Template(x, speedX, -20 * Scale, 0, 5, 0), 1) EXCEPT !.y = 100 * Scale]

ProbeBodies ==
    {BodyAt(special, cx, cy) : special \in {0, 1}, cx \in {50, 129, 130, 140},
                               cy \in {100, 129, 130, 139, 140}}
    \cup {BodyMoving(x, speedX) :
              x \in {-10 * Scale, -1 * Scale, 0, 100 * Scale,
                     (canvas.width - 60) * Scale, (canvas.width - 59) * Scale,
                     (canvas.width - 50) * Scale},
              speedX \in {-5 * Scale, 0, 25}}

ProbeScenario ==
    [maxTicks |-> ProbeCalls, maxEvents |-> ProbeEvents, eventWindow |-> ProbeCalls,
     deltas |-> {fixedTimeStep}, clockSteps |-> {200000}, maxNow |-> MaxNow,
     templates |-> {Regular}, canvasSizes |-> CanvasSizes,
     points |-> {Pt(130, 100), Pt(160, 300)}]

\* A session in progress with one body in the registry and a trail on the blade.
InitProbe ==
    /\ cfg = ProbeScenario
    /\ canvas \in {[width |-> 400, height |-> 400], [width |-> 800, height |-> 400]}
    /\ lastTime = 0
    /\ timeAccumulator = 0
    /\ score = 0
    /\ lives = initialLives
    /\ \E body \in ProbeBodies : lemons = <<body>>
    /\ gameActive = TRUE
    /\ fruitsSliced = 0
    /\ gameStartTime = 0
    /\ difficulty = DiffScale
    /\ floatingTexts = <<>>
    /\ \E trail \in ProbeTrails :
           /\ blade = [positions |-> trail, active |-> FALSE]
           /\ hist = [NoHistory EXCEPT !.recorded = trail]
    /\ hidden = [menu |-> TRUE, gameOver |-> TRUE, hud |-> FALSE]
    /\ finalScoreText = 0
    /\ fruitsCutText = 0
    /\ now = 0
    /\ spawnTimers = 1
    /\ rafPending = 1
    /\ lastFrame = NoFrame
    /\ nextId = 2
    /\ ticks = 0
    /\ events = 0
    /\ probe = NoProbe

\* Lines 650-659 for the first body of the registry: checkCollision(lemon) and, on a
\* hit, the slice.
CheckCollisionCall ==
    /\ ticks < cfg.maxTicks
    /\ lemons # <<>>
    /\ \E col \in {checkCollision(lemons[1], floatingTexts)} :
       \E cut \in {sliceOnHit(Game, lemons[1])} :
           /\ lemons' = [lemons EXCEPT ![1] = cut.lemon]
           /\ score' = cut.g.score
           /\ fruitsSliced' = cut.g.fruitsSliced
           /\ floatingTexts' = cut.g.floatingTexts
           /\ probe' = [op |-> "checkCollision", lemon |-> lemons[1],
                        trail |-> blade.positions, texts |-> floatingTexts,
                        score |-> score, fruitsSliced |-> fruitsSliced,
                        hit |-> col.hit, tested |-> col.lemon, textsAfter |-> col.floatingTexts,
                        after |-> cut.lemon, scoreAfter |-> cut.g.score,
                        fruitsSlicedAfter |-> cut.g.fruitsSliced]
    /\ ticks' = ticks + 1
    /\ UNCHANGED <<canvas, lastTime, timeAccumulator, lives, gameActive, gameStartTime,
                   difficulty, blade, hidden, finalScoreText, fruitsCutText, now,
                   spawnTimers, rafPending, hist, lastFrame, nextId, events, cfg>>

\* Line 648 for the first body of the registry: handleBoundaryCollision(lemon).
HandleBoundaryCall ==
    /\ ticks < cfg.maxTicks
    /\ lemons # <<>>
    /\ \E handled \in {handleBoundaryCollision(lemons[1])} :
           /\ lemons' = [lemons EXCEPT ![1] = handled]
           /\ probe' = [op |-> "handleBoundaryCollision", lemon |-> lemons[1],
                        canvasWidth |-> canvas.width, after |-> handled]
    /\ ticks' = ticks + 1
    /\ UNCHANGED <<canvas, lastTime, timeAccumulator, score, lives, gameActive,
                   fruitsSliced, gameStartTime, difficulty, floatingTexts, blade, hidden,
                   finalScoreText, fruitsCutText, now, spawnTimers, rafPending, hist,
                   lastFrame, nextId, events, cfg>>

NextProbe ==
    \/ CheckCollisionCall
    \/ HandleBoundaryCall
    \/ \E p \in cfg.points : MouseMove(p)
    \/ MouseUp

SpecProbe == InitProbe /\ [][NextProbe]_vars

\* pointToLineDistance is also called on its own: on the points of a grid and on
\* segments of every kind (both directions along an axis, vertical, diagonal, a 3-4-5
\* slope, two other slopes, and a segment of length zero), all in px.
DistancePoints == {Pt(x, y) : x \in {0, 30, 50, 70, 100, 130}, y \in {0, 40, 50, 100, 130}}

DistanceSegments ==
    { <<Pt(0, 100), Pt(100, 100)>>,
      <<Pt(100, 100), Pt(0, 100)>>,
      <<Pt(100, 0), Pt(100, 100)>>,
      <<Pt(50, 50), Pt(50, 50)>>,
      <<Pt(0, 0), Pt(30, 40)>>,
      <<Pt(0, 0), Pt(100, 100)>>,
      <<Pt(100, 100), Pt(160, 300)>>,
      <<Pt(0, 0), Pt(70, 10)>> }

InitDistance ==
    /\ Constructed(ProbeScenario, [width |-> 400, height |-> 400])
    /\ \E P \in DistancePoints : \E seg \in DistanceSegments :
           probe = [op |-> "arguments",
                    x |-> P.x * Scale, y |-> P.y * Scale,
                    x1 |-> seg[1].x * Scale, y1 |-> seg[1].y * Scale,
                    x2 |-> seg[2].x * Scale, y2 |-> seg[2].y * Scale]

\* Lines 528-557 on the arguments drawn.
PointToLineDistanceCall ==
    /\ probe.op = "arguments"
    /\ probe' = [probe EXCEPT !.op = "pointToLineDistance"]
                 @@ [distance |-> pointToLineDistance(probe.x, probe.y, probe.x1, probe.y1,
                                                      probe.x2, probe.y2)]
    /\ UNCHANGED <<canvas, lastTime, timeAccumulator, score, lives, lemons, gameActive,
                   fruitsSliced, gameStartTime, difficulty, floatingTexts, blade, hidden,
                   finalScoreText, fruitsCutText, now, spawnTimers, rafPending, hist,
                   lastFrame, nextId, ticks, events, cfg>>

NextDistance == PointToLineDistanceCall

SpecDistance == InitDistance /\ [][NextDistance]_vars


----------------------------------------------------------------------------
(* Claims *)

\* C1: in every reachable state lives is a non-negative integer, also when several
\* unsliced bodies expire in the same fixed update or in later updates of one frame.
C1_LivesNonNegative == lives \in Nat

\* C2: gameOver() is raised exactly once per session: at most once between one
\* startGame and the next, and it has been raised when lives are zero.
C2_GameOverOnce ==
    /\ hist.gameOverCalls <= 1
    /\ lives = 0 => hist.gameOverCalls = 1

\* C3: once the session is in Game Over the state is frozen: score, lives, fruitsSliced
\* and the live bodies with their sliced flags are those of the moment of the
\* transition, and the reported final score and fruit count equal the values held.
C3_FrozenAfterGameOver ==
    (~gameActive /\ hist.atGameOver # <<>>) =>
        /\ Frozen(Game) = hist.atGameOver[1]
        /\ finalScoreText = score
        /\ fruitsCutText = fruitsSliced

\* C4: at every moment at most one spawnLemons callback is scheduled and not yet fired.
C4_SingleSpawnTimer == spawnTimers <= 1

\* C5: at every fixed-update boundary (the end of each update of a frame, and so every
\* state between handlers) an active session has lives > 0: when lives reach zero in
\* an update the session is in Game Over by the end of that update.
C5_ActiveHasLives ==
    /\ gameActive => lives > 0
    /\ \A k \in 1..Len(lastFrame.ends) :
           lastFrame.ends[k].gameActive => lastFrame.ends[k].lives > 0

\* A fixed update in which lives reached zero has run.
C5_Witness ==
    /\ lastFrame.updates >= 1
    /\ lives <= 0
    /\ ~gameActive
    /\ hist.gameOverCalls >= 1

SlicedStays ==
    \A a \in 1..Len(lemons) : \A b \in 1..Len(lemons') :
        (lemons[a].id = lemons'[b].id /\ lemons[a].sliced) => lemons'[b].sliced

TestOnSlicedIsNoOp ==
    \A k \in 1..Len(lemons) :
        lemons[k].sliced =>
            /\ checkCollision(lemons[k], floatingTexts)
                   = [hit |-> FALSE, lemon |-> lemons[k], floatingTexts |-> floatingTexts]
            /\ sliceOnHit(Game, lemons[k]) = [g |-> Game, lemon |-> lemons[k]]

\* C6: the sliced flag of a body never returns from true to false (so it turns true
\* once), and a collision test on a sliced body reports no hit and changes neither
\* the body, the score, fruitsSliced nor the floating texts.
C6_SlicedOnceAndInert == []TestOnSlicedIsNoOp /\ [][SlicedStays]_vars

\* A sliced body lies in the registry under a trail that would hit it were it whole.
C6_Witness ==
    \E k \in 1..Len(lemons) :
        /\ lemons[k].sliced
        /\ firstHit(lemons[k]) # 0
        /\ ticks >= 2

NewRemovals == (Len(hist.removed) + 1)..Len(hist'.removed)

SessionGoesOn ==
    /\ Len(hist'.removed) >= Len(hist.removed)
    /\ SubSeq(hist'.removed, 1, Len(hist.removed)) = hist.removed

\* C7: lives decrease only by unsliced bodies expiring past the bottom threshold, one
\* life per such body; the removal of a sliced body leaves lives alone; no body is
\* removed (and so none costs a life) twice.
C7_LivesOnlyByUnslicedExpiry ==
    [][ /\ lives' <= initialLives
        /\ SessionGoesOn =>
              /\ lives - lives' = Cardinality({k \in NewRemovals : ~hist'.removed[k].sliced})
              /\ \A k \in NewRemovals :
                    ~hist'.removed[k].sliced => hist'.removed[k].y > hist'.removed[k].limit
        /\ ~SessionGoesOn => lives' = initialLives
        /\ \A j, k \in 1..Len(hist'.removed) :
              hist'.removed[j].id = hist'.removed[k].id => j = k ]_vars

\* In one session an unsliced body expired and a sliced body was removed.
C7_Witness ==
    /\ \E k \in 1..Len(hist.removed) : hist.removed[k].sliced
    /\ \E k \in 1..Len(hist.removed) : ~hist.removed[k].sliced
    /\ lives = initialLives - 1

\* C8: when a sliced body is removed, each of its halves is below the bottom threshold:
\* body y + half offsetY exceeds playfield height + 100.
C8_BothHalvesPassed ==
    \A k \in 1..Len(hist.removed) :
        hist.removed[k].sliced =>
            /\ hist.removed[k].leftY > hist.removed[k].limit
            /\ hist.removed[k].rightY > hist.removed[k].limit

\* The frame of the scenario of C9: accumulator empty, 40 ms after the previous frame.
C9_Frame ==
    /\ lastFrame.active
    /\ lastFrame.timed
    /\ lastFrame.before = 0
    /\ lastFrame.elapsed = 40 * TimeScale

\* C9 as claimed: such a frame runs exactly 2 fixed updates and carries 6.67 ms.
C9_TwoUpdates ==
    C9_Frame => (lastFrame.updates = 2 /\ lastFrame.after = 40 * TimeScale - 2 * fixedTimeStep)

\* C9 as amended: the 40 ms are capped to 32 ms, so such a frame runs exactly 1 fixed
\* update and carries 32 - 1000/60 = 15.33 ms to the next frame.
C9_OneUpdateAfterCap ==
    C9_Frame => (lastFrame.updates = 1 /\ lastFrame.after = 32 * TimeScale - fixedTimeStep)

C9_Witness == C9_Frame /\ ticks >= 1

\* C10: a frame of an active session adds the elapsed time, capped at 32 ms, to the
\* accumulator, runs floor(accumulated / fixedTimeStep) fixed updates, at most 2, and
\* renders once; after it 0 <= timeAccumulator < fixedTimeStep.
C10_FrameDrainsAccumulator ==
    /\ 0 <= timeAccumulator /\ timeAccumulator < fixedTimeStep
    /\ lastFrame.active =>
          LET added == IF lastFrame.timed THEN Min(lastFrame.elapsed, 32 * TimeScale) ELSE 0
              accumulated == lastFrame.before + added
          IN  /\ lastFrame.updates = accumulated \div fixedTimeStep
              /\ lastFrame.updates <= 2
              /\ lastFrame.after = accumulated - lastFrame.updates * fixedTimeStep
              /\ 0 <= lastFrame.after /\ lastFrame.after < fixedTimeStep
              /\ lastFrame.renders = 1

\* A frame that ran two fixed updates.
C10_Witness == lastFrame.active /\ lastFrame.updates = 2 /\ lastFrame.before > 0

\* The bodies sliced in the current session: those still in the registry and those
\* already removed.
SlicedCount ==
    Cardinality({k \in 1..Len(lemons) : lemons[k].sliced})
        + Cardinality({k \in 1..Len(hist.removed) : hist.removed[k].sliced})

RegularOnly ==
    /\ \A k \in 1..Len(lemons) : ~lemons[k].isSpecial
    /\ \A t \in cfg.templates : t.special = 0

\* C11: after N slices of regular bodies in a session the score is 10 x N; the score
\* is never negative and, from one startGame to the next, never decreases.
C11_ScoreTenPerSlice ==
    /\ [](RegularOnly => score = 10 * SlicedCount)
    /\ [](score >= 0)
    /\ [][StartGame \/ score' >= score]_vars

\* Two regular bodies have been sliced in the session.
C11_Witness == RegularOnly /\ SlicedCount = 2 /\ score = 20

\* 1 + (elapsed seconds / 10) x 0.1, for a whole number of seconds.
RampAfter(elapsedMs) == DiffScale + ((elapsedMs \div 1000) * DiffScale) \div 100

\* C12: difficulty always lies in [1, maxDifficulty = 3]; within a session it never
\* decreases; every updateDifficulty sets it to min(3, 1 + (elapsed s / 10) x 0.1),
\* which is 2.0 after 100 s, and once capped it stays at the cap.
C12_DifficultyRamp ==
    /\ [](DiffScale <= difficulty /\ difficulty <= 3 * DiffScale)
    /\ [][StartGame \/ difficulty' >= difficulty]_vars
    /\ [][(SpawnLemonsTimer /\ gameActive) =>
             /\ difficulty' = Min(3 * DiffScale, RampAfter(now - gameStartTime))
             /\ now - gameStartTime = 100000 => difficulty' = 2 * DiffScale]_vars
    /\ [][StartGame \/ (difficulty = 3 * DiffScale => difficulty' = 3 * DiffScale)]_vars

\* updateDifficulty ran 350 s into a session: the ramp is beyond the cap.
C12_Witness ==
    /\ gameActive
    /\ now - gameStartTime = 350000
    /\ difficulty = 3 * DiffScale

\* The last n elements of a sequence (all of them when it has fewer).
LastOf(seq, n) == SubSeq(seq, Max(1, Len(seq) - n + 1), Len(seq))

\* C13: the trail holds at most maxPositions (15) points, and they are exactly the most
\* recently recorded points since the trail was last emptied, oldest first; a clear
\* leaves the trail empty.
C13_TrailKeepsNewest ==
    /\ [](Len(blade.positions) <= 15)
    /\ [](blade.positions = LastOf(hist.recorded, 15))
    /\ [][MouseUp => blade'.positions = <<>>]_vars

\* More points were recorded than the trail holds: the oldest were evicted.
C13_Witness ==
    /\ Len(hist.recorded) > 15
    /\ Len(blade.positions) = 15
    /\ blade.positions[15] # blade.positions[14]

\* What the claim lists: the fields startGame resets and the fresh registry.
ResetListed ==
    /\ score' = 0
    /\ lives' = 3
    /\ fruitsSliced' = 0
    /\ difficulty' = DiffScale
    /\ blade'.positions = <<>>
    /\ timeAccumulator' = 0
    /\ \A k \in 1..Len(lemons') : lemons'[k].id >= nextId

\* Nothing else of the previous session is left: no floating text, and no callback
\* other than the spawn timer and the frame callback that startGame itself scheduled.
NothingRetained ==
    /\ floatingTexts' = <<>>
    /\ spawnTimers' = 1
    /\ rafPending' = 1

\* C14: startGame performs a full reset: immediately after it score = 0, lives = 3,
\* fruitsSliced = 0, difficulty = 1, the trail is empty, the accumulator is 0, the
\* registry holds only bodies of the new session's first batch, and nothing of the
\* previous session is retained.
C14_FullReset == [][StartGame => (ResetListed /\ NothingRetained)]_vars

\* C15: while the session is not active, spawning halts: no step other than startGame
\* puts a new body in the registry or schedules a spawn timer, and a spawn timer that
\* fires leaves the registry as it is and is not rescheduled.
C15_NoSpawnWhileInactive ==
    [][(~gameActive /\ ~StartGame) =>
          /\ \A k \in 1..Len(lemons') : \E j \in 1..Len(lemons) : lemons[j].id = lemons'[k].id
          /\ spawnTimers' <= spawnTimers
          /\ SpawnLemonsTimer => (lemons' = lemons /\ spawnTimers' = spawnTimers - 1)]_vars

\* The session is over and its spawn timer has fired since without being rescheduled.
C15_Witness ==
    /\ ~gameActive
    /\ hist.gameOverCalls >= 1
    /\ spawnTimers = 0

\* The center of a body, in px (the explored bodies are centered on whole px).
CenterX(l) == (l.x + (l.width * Scale) \div 2) \div Scale

CenterY(l) == (l.y + (l.height * Scale) \div 2) \div Scale

\* Nothing changed in the call probe records: not the body, the floating texts, the
\* score or fruitsSliced.
CallChangedNothing ==
    /\ probe.tested = probe.lemon
    /\ probe.after = probe.lemon
    /\ probe.textsAfter = probe.texts
    /\ probe.scoreAfter = probe.score
    /\ probe.fruitsSlicedAfter = probe.fruitsSliced

\* C16: a collision test against a trail of fewer than 2 points reports no hit and
\* leaves the body, the score and the floating texts unchanged.
C16_ShortTrailNoHit ==
    (probe.op = "checkCollision" /\ Len(probe.trail) < 2) =>
        (~probe.hit /\ CallChangedNothing)

\* The test ran against a one-point trail whose point lies on the body's center.
C16_Witness ==
    /\ probe.op = "checkCollision"
    /\ Len(probe.trail) = 1
    /\ probe.trail[1].x = CenterX(probe.lemon)
    /\ probe.trail[1].y = CenterY(probe.lemon)

\* Whether the segment a-b (px) passes strictly closer than r px to the point (cx, cy):
\* the squared distance to the nearest point of the segment is compared with r * r,
\* without rounding.
CloserThan(r, cx, cy, a, b) ==
    LET A == cx - a.x
        B == cy - a.y
        C == b.x - a.x
        D == b.y - a.y
        dot == A * C + B * D
        lenSq == C * C + D * D
        cross == A * D - B * C
    IN  IF lenSq = 0 \/ dot < 0 THEN A * A + B * B < r * r
        ELSE IF dot > lenSq THEN (cx - b.x) * (cx - b.x) + (cy - b.y) * (cy - b.y) < r * r
        ELSE Abs(cross) <= 46340 /\ cross * cross < r * r * lenSq

\* Whether the foot of the perpendicular from (cx, cy) on the line a-b, where it lies
\* within the segment, falls on the 1/10 px grid the model computes on.
OnGrid(cx, cy, a, b) ==
    LET C == b.x - a.x
        D == b.y - a.y
        dot == (cx - a.x) * C + (cy - a.y) * D
        lenSq == C * C + D * D
    IN  \/ lenSq = 0 \/ dot < 0 \/ dot > lenSq
        \/ (10 * dot * C) % lenSq = 0 /\ (10 * dot * D) % lenSq = 0

\* The segments of the trail of the probed call that pass closer than r px to the
\* center of the probed body, each named by the index of its end point.
Within(r) ==
    {i \in 2..Len(probe.trail) :
        CloserThan(r, CenterX(probe.lemon), CenterY(probe.lemon),
                   probe.trail[i - 1], probe.trail[i])}

RadiusOf(l) == IF l.isSpecial THEN 40 ELSE 30

Qualifying == Within(RadiusOf(probe.lemon))

\* The segments whose distance is within 1 px of the radius while the foot of the
\* perpendicular is off the grid: the rounding of the model, not the program, would
\* decide them, so calls with such a segment are left out of the comparison.
Undecided ==
    {i \in Within(RadiusOf(probe.lemon) + 1) \ Within(RadiusOf(probe.lemon) - 1) :
        ~OnGrid(CenterX(probe.lemon), CenterY(probe.lemon),
                probe.trail[i - 1], probe.trail[i])}

\* C17: an unsliced body is hit (and sliced) if and only if some pair of consecutive
\* trail points forms a segment whose distance to the body's center is strictly below
\* 30 (regular) or 40 (special); trail [(0,100),(100,100)] and center (50,100) hit
\* with sliceAngle 0.
C17_HitIffSegmentInRadius ==
    (probe.op = "checkCollision" /\ ~probe.lemon.sliced) =>
        /\ Undecided = {} => (probe.hit <=> Qualifying # {})
        /\ probe.after.sliced <=> probe.hit
        /\ (/\ probe.trail = <<Pt(0, 100), Pt(100, 100)>>
            /\ CenterX(probe.lemon) = 50 /\ CenterY(probe.lemon) = 100)
           => (probe.hit /\ probe.tested.sliceAngle = 0)

\* The scenario of the claim was tested, on a regular body.
C17_Witness ==
    /\ probe.op = "checkCollision"
    /\ ~probe.lemon.sliced /\ ~probe.lemon.isSpecial
    /\ probe.trail = <<Pt(0, 100), Pt(100, 100)>>
    /\ CenterX(probe.lemon) = 50 /\ CenterY(probe.lemon) = 100
    /\ probe.hit


\* The product of two naturals as the pair [q, r] with a * b = q * 65536 + r, which
\* keeps products of up to 46 bits within 32-bit integers; WideLeq and WideLess compare
\* two such pairs.
Wide(a, b) == MulDivNat(a, b, 65536)

WideLeq(m, n) == m.q < n.q \/ (m.q = n.q /\ m.r <= n.r)

WideLess(m, n) == ~WideLeq(n, m)

\* The probed call of pointToLineDistance in px: P, the segment A-B, and the terms of
\* the exact computation.
DistOf(a, b) == (a.x - b.x) * (a.x - b.x) + (a.y - b.y) * (a.y - b.y)

ProbedP == Pt(probe.x \div Scale, probe.y \div Scale)

ProbedA == Pt(probe.x1 \div Scale, probe.y1 \div Scale)

ProbedB == Pt(probe.x2 \div Scale, probe.y2 \div Scale)

ProbedDot ==
    (ProbedP.x - ProbedA.x) * (ProbedB.x - ProbedA.x)
    + (ProbedP.y - ProbedA.y) * (ProbedB.y - ProbedA.y)

ProbedCross ==
    Abs((ProbedP.x - ProbedA.x) * (ProbedB.y - ProbedA.y)
        - (ProbedP.y - ProbedA.y) * (ProbedB.x - ProbedA.x))

\* Whether the projection of P falls within the segment.
ProjectionWithin ==
    DistOf(ProbedA, ProbedB) # 0 /\ ProbedDot >= 0 /\ ProbedDot <= DistOf(ProbedA, ProbedB)

\* lo <= perpendicular distance of P to the line A-B < hi, in 1/Scale px:
\* lo^2 * lenSq <= (Scale * cross)^2 < hi^2 * lenSq.
PerpendicularIn(lo, hi) ==
    /\ WideLeq(Wide(lo * lo, DistOf(ProbedA, ProbedB)),
               Wide(Scale * ProbedCross, Scale * ProbedCross))
    /\ WideLess(Wide(Scale * ProbedCross, Scale * ProbedCross),
                Wide(hi * hi, DistOf(ProbedA, ProbedB)))

\* lo <= distance of P to the nearer of A and B < hi, in 1/Scale px.
NearerEndpointIn(lo, hi) ==
    LET nearer == Min(DistOf(ProbedP, ProbedA), DistOf(ProbedP, ProbedB)) * Scale * Scale
    IN  lo * lo <= nearer /\ nearer < hi * hi

\* C18: pointToLineDistance(P, A, B) is the perpendicular distance from P to the line
\* A-B when the projection of P falls within the segment, the distance to the nearer
\* endpoint otherwise, and the distance from P to A when A = B.  The result is compared
\* on the 1/Scale px grid of the model: it is the exact distance rounded down, except
\* that a foot point off the grid may move it by up to 2/Scale px down or 3/Scale px up.
C18_SegmentDistance ==
    probe.op = "pointToLineDistance" =>
        LET d == probe.distance
        IN  /\ ProjectionWithin =>
                IF OnGrid(ProbedP.x, ProbedP.y, ProbedA, ProbedB)
                THEN PerpendicularIn(d, d + 1)
                ELSE PerpendicularIn(Max(d - 2, 0), d + 3)
            /\ ~ProjectionWithin => NearerEndpointIn(d, d + 1)
            /\ ProbedA = ProbedB =>
                   d * d <= DistOf(ProbedP, ProbedA) * Scale * Scale
                   /\ DistOf(ProbedP, ProbedA) * Scale * Scale < (d + 1) * (d + 1)

\* P = (130, 40) lies beyond the end B of (0,100)-(100,100): the result is |PB|, which
\* is not the distance 60 to the line.
C18_Witness ==
    /\ probe.op = "pointToLineDistance"
    /\ ProbedP = Pt(130, 40) /\ ProbedA = Pt(0, 100) /\ ProbedB = Pt(100, 100)
    /\ probe.distance = Sqrt((30 * 30 + 60 * 60) * Scale * Scale)
    /\ probe.distance > 60 * Scale


\* C19: after handleBoundaryCollision on an unsliced body narrower than the playfield,
\* 0 <= x <= canvasWidth - width; a body clamped at the left edge gets the speed
\* +0.8 * |old speed|, one clamped at the right edge -0.8 * |old speed|; a body inside
\* the playfield is left unchanged, and nothing but x and speedX ever changes.  The
\* body at x = -10 with width 60 and speedX = -5 in a playfield 800 wide ends at x = 0
\* with speedX = +4.
C19_BoundaryClamp ==
    (/\ probe.op = "handleBoundaryCollision"
     /\ ~probe.lemon.sliced
     /\ probe.lemon.width < probe.canvasWidth) =>
        LET l == probe.lemon
            a == probe.after
            right == (probe.canvasWidth - l.width) * Scale
        IN  /\ 0 <= a.x /\ a.x <= right
            /\ l.x < 0 => (a.x = 0 /\ 10 * a.speedX = 8 * Abs(l.speedX))
            /\ l.x > right => (a.x = right /\ 10 * a.speedX = -8 * Abs(l.speedX))
            /\ (0 <= l.x /\ l.x <= right) => a = l
            /\ [a EXCEPT !.x = l.x, !.speedX = l.speedX] = l
            /\ (/\ l.x = -10 * Scale /\ l.width = 60 /\ probe.canvasWidth = 800
                /\ l.speedX = -5 * Scale)
               => (a.x = 0 /\ a.speedX = 4 * Scale)

\* The body of the scenario has been handled, and so has one beyond the right edge.
C19_Witness ==
    /\ probe.op = "handleBoundaryCollision"
    /\ ~probe.lemon.sliced
    /\ probe.lemon.x = -10 * Scale /\ probe.lemon.width = 60 /\ probe.canvasWidth = 800
    /\ probe.lemon.speedX = -5 * Scale
    /\ probe.after.x = 0 /\ probe.after.speedX = 4 * Scale

C19_WitnessRight ==
    /\ probe.op = "handleBoundaryCollision"
    /\ ~probe.lemon.sliced
    /\ probe.lemon.x > (probe.canvasWidth - probe.lemon.width) * Scale
    /\ probe.lemon.speedX > 0
    /\ probe.after.speedX < 0


\* The oldest segment of the probed trail that qualifies for the probed body.
FirstQualifying == CHOOSE i \in Qualifying : \A k \in Qualifying : i <= k

\* For a segment along an axis, the slice angle in eighths of a turn and the impulse
\* sliceForce * (cos, sin)(angle + quarter turn) in 1/Scale px per tick.
AlongAxis(a, b) ==
    CASE b.x > a.x /\ b.y = a.y -> [angle |-> 0, ix |-> 0, iy |-> 8 * Scale]
      [] b.x = a.x /\ b.y > a.y -> [angle |-> 2, ix |-> -8 * Scale, iy |-> 0]
      [] b.x < a.x /\ b.y = a.y -> [angle |-> 4, ix |-> 0, iy |-> -8 * Scale]
      [] b.x = a.x /\ b.y < a.y -> [angle |-> -2, ix |-> 8 * Scale, iy |-> 0]

\* The body l after a hit by the segment a-b along an axis.
SlicedBy(l, t, a, b) ==
    /\ t.sliceAngle = AlongAxis(a, b).angle
    /\ t.leftHalf.speedX = l.speedX - AlongAxis(a, b).ix
    /\ t.leftHalf.speedY = l.speedY - AlongAxis(a, b).iy
    /\ t.rightHalf.speedX = l.speedX + AlongAxis(a, b).ix
    /\ t.rightHalf.speedY = l.speedY + AlongAxis(a, b).iy

\* C20: when several trail segments lie within the hit radius of a body, the first of
\* them in oldest-to-newest order wins: sliceAngle is the direction of that segment
\* and the velocities of the halves are the body's velocity minus and plus the impulse
\* perpendicular to that segment, whatever the later segments are.
C20_FirstSegmentWins ==
    (/\ probe.op = "checkCollision" /\ ~probe.lemon.sliced /\ probe.hit
     /\ Undecided = {} /\ Qualifying # {}) =>
        LET a == probe.trail[FirstQualifying - 1]
            b == probe.trail[FirstQualifying]
        IN  /\ probe.tested.sliceAngle = Atan2(b.y - a.y, b.x - a.x)
            /\ (a.x = b.x \/ a.y = b.y) /\ a # b
                   => SlicedBy(probe.lemon, probe.tested, a, b)

\* Two segments of different directions qualify for the body at (140, 100): the older,
\* downward one of (160,40),(160,100),(100,100) gives the angle and the impulse, not
\* the newer leftward one.
C20_Witness ==
    /\ probe.op = "checkCollision" /\ ~probe.lemon.sliced /\ probe.hit
    /\ probe.trail = <<Pt(160, 40), Pt(160, 100), Pt(100, 100)>>
    /\ CenterX(probe.lemon) = 140 /\ CenterY(probe.lemon) = 100
    /\ Qualifying = {2, 3}
    /\ probe.tested.sliceAngle = 2
    /\ probe.tested.rightHalf.speedX = probe.lemon.speedX - 8 * Scale


\* The unsliced bodies that expired since startGame.
ExpiredCount == Cardinality({k \in 1..Len(hist.removed) : ~hist.removed[k].sliced})

\* C21: at the end of every fixed update no unsliced body with y > playfield height +
\* 100 is left in the registry, and lives = 3 - (number of unsliced bodies expired
\* since startGame).
C21_ExpiredLeaveAndCost ==
    /\ [](lives = initialLives - ExpiredCount)
    /\ [](\A k \in 1..Len(lastFrame.ends) : lastFrame.ends[k].overdue = 0)
    /\ [][ticks' > ticks => Overdue(lemons)' = {}]_vars

\* Two unsliced bodies have expired in a fixed update and the session goes on.
C21_Witness ==
    /\ gameActive
    /\ lastFrame.updates >= 1
    /\ ExpiredCount = 2
    /\ lives = initialLives - 2
    /\ \A k \in 1..2 : hist.removed[k].y > hist.removed[k].limit


\* The impulse of the probed slice: half the difference of the two half velocities.
ImpulseX == (probe.tested.rightHalf.speedX - probe.tested.leftHalf.speedX) \div 2

ImpulseY == (probe.tested.rightHalf.speedY - probe.tested.leftHalf.speedY) \div 2

\* C22: at the instant of slicing the halves are derived symmetrically from the
\* velocity v of the body before the slice and an impulse p of magnitude sliceForce = 8:
\* left velocity = v - p, right velocity = v + p, so that their sum is 2v; both offsets
\* are 0, both rotations are the body's rotation, and the rotation speeds are -0.1
\* (left) and +0.1 (right) whatever the body's rotation speed.  The magnitude of p is
\* compared to within the 1/Scale px of the fixed-point cosine and sine.
C22_SymmetricHalves ==
    (probe.op = "checkCollision" /\ ~probe.lemon.sliced /\ probe.hit) =>
        LET l == probe.lemon
            left == probe.tested.leftHalf
            right == probe.tested.rightHalf
        IN  /\ left.speedX = l.speedX - ImpulseX /\ right.speedX = l.speedX + ImpulseX
            /\ left.speedY = l.speedY - ImpulseY /\ right.speedY = l.speedY + ImpulseY
            /\ left.speedX + right.speedX = 2 * l.speedX
            /\ left.speedY + right.speedY = 2 * l.speedY
            /\ (sliceForce * Scale - 1) * (sliceForce * Scale - 1)
                   <= ImpulseX * ImpulseX + ImpulseY * ImpulseY
            /\ ImpulseX * ImpulseX + ImpulseY * ImpulseY
                   <= (sliceForce * Scale + 1) * (sliceForce * Scale + 1)
            /\ left.offsetX = 0 /\ left.offsetY = 0
            /\ right.offsetX = 0 /\ right.offsetY = 0
            /\ left.rotation = l.rotation /\ right.rotation = l.rotation
            /\ left.rotationSpeed = -10 /\ right.rotationSpeed = 10
            /\ probe.after.leftHalf = left /\ probe.after.rightHalf = right

\* A body turned by 1 rad and turning at -0.05 per tick has been sliced by a segment
\* along the x axis: the impulse is (0, 8).
C22_Witness ==
    /\ probe.op = "checkCollision" /\ ~probe.lemon.sliced /\ probe.hit
    /\ probe.lemon.rotation = 100 /\ probe.lemon.rotationSpeed = -5
    /\ probe.tested.sliceAngle = 0
    /\ ImpulseX = 0 /\ ImpulseY = sliceForce * Scale
    /\ probe.tested.leftHalf.rotation = 100


\* A half state as it is at spawn.
AtRest(half) ==
    half = [offsetX |-> 0, offsetY |-> 0, rotation |-> 0,
            speedX |-> 0, speedY |-> 0, rotationSpeed |-> 0]

\* The whole-body motion fields of a body.
WholeMotion(l) == <<l.x, l.y, l.speedX, l.speedY, l.rotation>>

\* One fixed update of 1/60 s on a half of the body l: the offsets advance by the
\* speeds, speedY by the gravity and the rotation by the rotation speed, unless the
\* half is put back at an edge of the playfield by the boundary handling.
HalfAdvanced(l, h, h2) ==
    /\ h2.offsetY = h.offsetY + h.speedY
    /\ h2.speedY = h.speedY + difficultySettings.gravity
    /\ h2.rotation = h.rotation + h.rotationSpeed
    /\ h2.rotationSpeed = h.rotationSpeed
    /\ \/ h2.offsetX = h.offsetX + h.speedX /\ h2.speedX = h.speedX
       \/ l.x + h2.offsetX \in {0, (canvas.width - l.width) * Scale}

\* One fixed update of 1/60 s on the whole body, boundary handling apart.
WholeAdvanced(l, l2) ==
    /\ l2.y = l.y + l.speedY
    /\ l2.speedY = l.speedY + difficultySettings.gravity
    /\ l2.rotation = l.rotation + l.rotationSpeed
    /\ \/ l2.x = l.x + l.speedX /\ l2.speedX = l.speedX
       \/ l2.x \in {0, (canvas.width - l.width) * Scale}

\* What a step does to the body a of the registry, found again as b after the step.
OneMotionState(a, b) ==
    /\ (~a.sliced /\ ~b.sliced) =>
           /\ AtRest(b.leftHalf) /\ AtRest(b.rightHalf)
           /\ ticks' = ticks + 1 => WholeAdvanced(a, b)
    /\ a.sliced =>
           /\ b.sliced
           /\ WholeMotion(b) = WholeMotion(a)
           /\ ticks' = ticks + 1 =>
                  /\ HalfAdvanced(a, a.leftHalf, b.leftHalf)
                  /\ HalfAdvanced(a, a.rightHalf, b.rightHalf)
    /\ ticks' = ticks => b = a

\* C23: exactly one of the two motion states of a body is active.  While a body is
\* unsliced both half states stay at their zero initial values and a fixed update
\* integrates the whole-body fields only; once it is sliced a fixed update leaves its
\* x, y, speedX, speedY and rotation unchanged and advances the two half states only,
\* each on its own with the same gravity.
C23_OneMotionState ==
    /\ [](\A k \in 1..Len(lemons) :
             ~lemons[k].sliced => (AtRest(lemons[k].leftHalf) /\ AtRest(lemons[k].rightHalf)))
    /\ [][\A j \in 1..Len(lemons) : \A k \in 1..Len(lemons') :
             lemons[j].id = lemons'[k].id => OneMotionState(lemons[j], lemons'[k])]_vars

\* A sliced body whose halves have drifted apart for some updates lies in the registry
\* with an unsliced body in flight.
C23_Witness ==
    /\ lastFrame.updates = 1
    /\ \E k \in 1..Len(lemons) :
           /\ lemons[k].sliced
           /\ lemons[k].leftHalf.offsetY # lemons[k].rightHalf.offsetY
           /\ lemons[k].leftHalf.speedY - lemons[k].rightHalf.speedY
                  = -2 * sliceForce * Scale
           /\ lemons[k].leftHalf.rotation < lemons[k].rotation - 20
    /\ \E k \in 1..Len(lemons) :
           ~lemons[k].sliced /\ lemons[k].speedY > -30 * Scale


\* The bodies a step slices: their indices in the registry after the step.
NewlySliced ==
    {k \in 1..Len(lemons') :
        /\ lemons'[k].sliced
        /\ \E j \in 1..Len(lemons) : lemons[j].id = lemons'[k].id /\ ~lemons[j].sliced}

RECURSIVE PointsOfAll(_, _)
\* The sum of the point values of the bodies of registry at the indices in which.
PointsOfAll(registry, which) ==
    IF which = {} THEN 0
    ELSE LET k == CHOOSE x \in which : TRUE
         IN  pointsOf(registry[k]) + PointsOfAll(registry, which \ {k})

\* The step emits one floating text per body it slices, carrying the body's point
\* value at the body's center: they are the newest n texts, n the number of slices.
OneTextPerSlice(n) ==
    /\ hist'.emitted = hist.emitted + n
    /\ Len(floatingTexts') >= n
    /\ {<<floatingTexts'[t].x, floatingTexts'[t].y, floatingTexts'[t].text>> :
            t \in (Len(floatingTexts') - n + 1)..Len(floatingTexts')}
         = {<<lemons'[k].x + (lemons'[k].width * Scale) \div 2,
              lemons'[k].y + (lemons'[k].height * Scale) \div 2,
              pointsOf(lemons'[k])>> : k \in NewlySliced}

\* C24: every successful slice is exactly one scoring event: fruitsSliced grows by one,
\* score by the point value of the body, and one floating text with that value is
\* emitted at the center of the body; so within a session fruitsSliced is the number
\* of bodies whose sliced flag was set, and the number of floating texts emitted.
C24_OneScoringEventPerSlice ==
    /\ [](fruitsSliced = SlicedCount /\ fruitsSliced = hist.emitted)
    /\ [][StartGame \/
             /\ fruitsSliced' = fruitsSliced + Cardinality(NewlySliced)
             /\ score' = score + PointsOfAll(lemons', NewlySliced)
             /\ OneTextPerSlice(Cardinality(NewlySliced))]_vars

\* Two bodies were sliced in one fixed update of the session: two texts came out.
C24_Witness ==
    /\ gameActive
    /\ fruitsSliced = 2
    /\ hist.emitted = 2
    /\ Len(floatingTexts) = 2
    /\ \A t \in 1..2 : floatingTexts[t].text = regularPoints
    /\ Cardinality({k \in 1..Len(lemons) : lemons[k].sliced}) = 2


\* A gameLoop callback that fires while gameActive is false runs no fixed update and
\* requests no further frame.
InactiveCallbackStops ==
    [][(rafPending' # rafPending /\ ~gameActive /\ ~StartGame) =>
           /\ rafPending' = rafPending - 1
           /\ ticks' = ticks
           /\ lemons' = lemons /\ score' = score /\ lives' = lives]_vars

\* C25: at most one chain of gameLoop callbacks is alive: whatever the order of game
\* over, restart and animation frames, the number of requested and not yet run
\* gameLoop callbacks never exceeds one.
C25_SingleFrameChain == rafPending <= 1


\* The body a of the registry is found once after a fixed update, integrated once:
\* either in the registry, or among the bodies the update removed.
IntegratedOnce(a) ==
    LET stays == {k \in 1..Len(lemons') : lemons'[k].id = a.id}
        leaves == {k \in NewRemovals : hist'.removed[k].id = a.id}
        gravity == difficultySettings.gravity
    IN  /\ Cardinality(stays) + Cardinality(leaves) = 1
        /\ \A k \in stays :
               IF a.sliced
               THEN /\ lemons'[k].leftHalf.speedY = a.leftHalf.speedY + gravity
                    /\ lemons'[k].rightHalf.speedY = a.rightHalf.speedY + gravity
               ELSE /\ lemons'[k].speedY = a.speedY + gravity
                    /\ lemons'[k].y = a.y + a.speedY
        /\ \A k \in leaves :
               IF a.sliced
               THEN /\ hist'.removed[k].leftY = a.y + a.leftHalf.offsetY + a.leftHalf.speedY
                    /\ hist'.removed[k].rightY = a.y + a.rightHalf.offsetY + a.rightHalf.speedY
               ELSE hist'.removed[k].y = a.y + a.speedY

\* After a fixed update no body of the registry is left untested against the trail or
\* unchecked for expiry: an unsliced body is not under the trail and not below the
\* threshold, a sliced one has a half whose offset is not beyond it.
TestedAndChecked(b) ==
    IF b.sliced
    THEN ~(/\ b.leftHalf.offsetY > (canvas.height + bottomMargin) * Scale
           /\ b.rightHalf.offsetY > (canvas.height + bottomMargin) * Scale)
    ELSE firstHit(b) = 0 /\ b.y <= (canvas.height + bottomMargin) * Scale

\* C26: within one fixed update every body that was in the registry at its start is
\* integrated, collision-tested and expiry-checked exactly once, also when other
\* bodies are removed from the registry during the same iteration: none is skipped
\* and none is processed twice.
C26_EveryBodyOncePerUpdate ==
    [][ticks' = ticks + 1 =>
           /\ \A j \in 1..Len(lemons) : IntegratedOnce(lemons[j])
           /\ \A k \in 1..Len(lemons') :
                  /\ TestedAndChecked(lemons'[k])
                  /\ \E j \in 1..Len(lemons) : lemons[j].id = lemons'[k].id
           /\ \A k \in NewRemovals :
                  \E j \in 1..Len(lemons) : lemons[j].id = hist'.removed[k].id]_vars

\* An unsliced body has expired while a sliced body that stands behind it in the
\* registry flies on.
C26_Witness ==
    /\ lastFrame.updates = 1
    /\ Len(hist.removed) = 1
    /\ ~hist.removed[1].sliced
    /\ \E k \in 1..Len(lemons) :
           /\ lemons[k].sliced
           /\ lemons[k].id > hist.removed[1].id
           /\ lemons[k].leftHalf.offsetY # 0


\* The body with identity id is in the registry.
InRegistry(id) == \E k \in 1..Len(lemons) : lemons[k].id = id

\* C27: as long as the session stays active and fixed updates keep running, every
\* spawned body is eventually removed from the registry: an unsliced one once it has
\* fallen past the bottom threshold, a sliced one once both its halves have.
C27_EveryBodyLeaves ==
    \A id \in 1..LiveEvents : InRegistry(id) ~> (~InRegistry(id) \/ ~gameActive)

\* The session is still active after a flight: the body was sliced on its way up, its
\* halves fell for some 250 updates, and it has left the registry.
C27_Witness ==
    /\ gameActive
    /\ lemons = <<>>
    /\ ticks > 200
    /\ Len(hist.removed) = 1
    /\ hist.removed[1].sliced
    /\ hist.removed[1].leftY > hist.removed[1].y

\* The session is still active after a flight in which nobody sliced: the body has
\* fallen past the threshold and has left the registry.
C27_WitnessUnsliced ==
    /\ gameActive
    /\ lemons = <<>>
    /\ ticks > 150
    /\ Len(hist.removed) = 1
    /\ ~hist.removed[1].sliced
    /\ hist.removed[1].y > hist.removed[1].limit

====
